---- MODULE Spec2Model ----
(***************************************************************************)
(* A model of src/index.ts: the page optimisation pipeline                 *)
(* (removeHiddenElements, optimiseAndOutput) and the size report           *)
(* (sizeReport, main).  Text is modelled as sequences of one-character     *)
(* strings so that splitting, searching and replacing are computed the     *)
(* way the JavaScript string methods compute them.                         *)
(***************************************************************************)
EXTENDS Integers, Sequences, FiniteSets, TLC

VARIABLES
    pc,               \* position of the function being run
    string,           \* parseSrcset: the srcset attribute value
    parsed,           \* parseSrcset: the returned candidates
    threw,            \* the name of the error thrown, "" when none
    srcset,           \* stringifySrcset: the returned string
    cssText,          \* the rules of a <style> sheet as the page parsed them
    styleSheet,       \* tackleCSSGroup: document.styleSheets[k].cssRules
    warnings,         \* tackleCSSGroup: number of console.warn calls
    ownerNode,        \* the <style> node: "present" or "removed"
    resources,        \* sizeReport / optimiseAndOutput: captured responses
    unit,             \* per-resource async callbacks of a Promise.all
    typeUnit,         \* sizeReport: the two per-type async callbacks
    reportResources,  \* sizeReport: entries pushed so far
    combined,         \* sizeReport: cssSizeReport / jsSizeReport
    promise,          \* state of the promise the stage returns
    cause,            \* what made that promise reject
    printed,          \* main: the per-type "Separate" original size
    references,       \* optimiseAndOutput: the URLs the document refers to
    optimizedSource,  \* optimiseAndOutput: the document text
    urlMap,           \* optimiseAndOutput: [url, fileName] pairs
    out,              \* names of the files written to out/
    dom,              \* removeHiddenElements: the elements under body
    evaluated,        \* removeHiddenElements: the in-page function has run
    content,          \* removeHiddenElements: the returned markup
    requests,         \* the requests the page makes while interception is on
    handler,          \* position of the 'request' handler run for each
    resolution        \* how each intercepted request was resolved, in order

srcsetVars  == <<string, parsed, srcset>>
cssVars     == <<cssText, styleSheet, warnings, ownerNode>>
sizeVars    == <<typeUnit, reportResources, combined, printed>>
stageVars   == <<resources, unit, promise, cause>>
rewriteVars == <<references, optimizedSource, urlMap, out>>
hiddenVars  == <<dom, evaluated, content>>
interceptVars == <<requests, handler, resolution>>
vars == <<pc, threw, srcsetVars, cssVars, sizeVars, stageVars, rewriteVars,
          hiddenVars, interceptVars>>

\* The value of every variable a function does not use.
IdleSrcset  == string = <<>> /\ parsed = <<>> /\ srcset = <<>>
IdleCss     == cssText = <<>> /\ styleSheet = <<>> /\ warnings = 0
               /\ ownerNode = "present"
IdleSize    == typeUnit = <<>> /\ reportResources = <<>> /\ combined = <<>>
               /\ printed = <<>>
IdleStage   == resources = <<>> /\ unit = <<>> /\ promise = "pending"
               /\ cause = ""
IdleRewrite == references = <<>> /\ optimizedSource = <<>> /\ urlMap = <<>>
               /\ out = {}
IdleHidden  == dom = <<>> /\ evaluated = FALSE /\ content = {}
IdleIntercept == requests = <<>> /\ handler = <<>> /\ resolution = <<>>

----------------------------------------------------------------------------
(* Bounds *)

MaxCands == 3      \* image candidates in a srcset value
MaxNodes == 3      \* rules in a stylesheet, nested ones included
MaxRes   == 2      \* resources captured by optimiseAndOutput
MaxResponses == 2  \* responses captured by sizeReport
MaxRefs  == 2      \* URL references in the serialised document
MaxEls   == 2      \* elements under body
MaxRequests == 3   \* requests intercepted during one page.goto

----------------------------------------------------------------------------
(* Strings *)

RECURSIVE Concat(_)
Concat(ss) == IF ss = <<>> THEN <<>> ELSE Head(ss) \o Concat(Tail(ss))

\* The sequences over S of length n, and of a length in lo..hi.
RECURSIVE SeqsOfLen(_, _)
SeqsOfLen(S, n) ==
    IF n = 0 THEN {<<>>}
    ELSE {<<x>> \o t : x \in S, t \in SeqsOfLen(S, n - 1)}

SeqsUpTo(S, lo, hi) == UNION {SeqsOfLen(S, n) : n \in lo..hi}

\* s.startsWith(t, i), i counted from 1.
MatchesAt(s, t, i) ==
    /\ i + Len(t) - 1 <= Len(s)
    /\ \A k \in 1..Len(t) : s[i + k - 1] = t[k]

\* s.includes(t)
Includes(s, t) == \E i \in 1..(Len(s) + 1) : MatchesAt(s, t, i)

IsWhitespace(c) == c = " "
IsDigit(c) == c \in {"0", "1", "2", "3", "4", "5", "6", "7", "8", "9"}
DigitValue(c) ==
    CASE c = "0" -> 0 [] c = "1" -> 1 [] c = "2" -> 2 [] c = "3" -> 3
      [] c = "4" -> 4 [] c = "5" -> 5 [] c = "6" -> 6 [] c = "7" -> 7
      [] c = "8" -> 8 [] c = "9" -> 9

DigitChar(d) == <<"0", "1", "2", "3", "4", "5", "6", "7", "8", "9">>[d + 1]

\* `${n}` for a non-negative integer n.
RECURSIVE NumberToString(_)
NumberToString(n) ==
    IF n < 10 THEN <<DigitChar(n)>>
    ELSE NumberToString(n \div 10) \o <<DigitChar(n % 10)>>

----------------------------------------------------------------------------
(* Srcset codec: parseSrcset, deepUnique, stringifySrcset *)

\* First index >= i of s that holds no whitespace (Len(s) + 1 when none).
RECURSIVE SkipWhitespace(_, _)
SkipWhitespace(s, i) ==
    IF i <= Len(s) /\ IsWhitespace(s[i]) THEN SkipWhitespace(s, i + 1) ELSE i

\* string.split(/,\s+/): a separator is a comma followed by one or more
\* whitespace characters; a comma followed by anything else is kept.
RECURSIVE SplitCommaWs(_, _, _)
SplitCommaWs(s, i, cur) ==
    IF i > Len(s) THEN <<cur>>
    ELSE IF s[i] = "," /\ i < Len(s) /\ IsWhitespace(s[i + 1])
         THEN <<cur>> \o SplitCommaWs(s, SkipWhitespace(s, i + 1), <<>>)
         ELSE SplitCommaWs(s, i + 1, Append(cur, s[i]))

\* part.trim()
RECURSIVE TrimEnd(_)
TrimEnd(s) ==
    IF s # <<>> /\ IsWhitespace(s[Len(s)])
    THEN TrimEnd(SubSeq(s, 1, Len(s) - 1)) ELSE s

Trim(s) == TrimEnd(SubSeq(s, SkipWhitespace(s, 1), Len(s)))

\* part.split(/\s+/)
RECURSIVE SplitWs(_, _, _)
SplitWs(s, i, cur) ==
    IF i > Len(s) THEN <<cur>>
    ELSE IF IsWhitespace(s[i])
         THEN <<cur>> \o SplitWs(s, SkipWhitespace(s, i), <<>>)
         ELSE SplitWs(s, i + 1, Append(cur, s[i]))

\* Value of a run of decimal digits.
RECURSIVE DigitsValue(_)
DigitsValue(ds) ==
    IF ds = <<>> THEN 0
    ELSE 10 * DigitsValue(SubSeq(ds, 1, Len(ds) - 1)) + DigitValue(ds[Len(ds)])

\* Length of the longest run of digits starting at s[i].
RECURSIVE DigitRun(_, _)
DigitRun(s, i) ==
    IF i <= Len(s) /\ IsDigit(s[i]) THEN 1 + DigitRun(s, i + 1) ELSE 0

\* integerRegex = /^-?\d+$/
integerRegex(value) ==
    LET d == IF value # <<>> /\ value[1] = "-" THEN Tail(value) ELSE value
    IN  d # <<>> /\ DigitRun(d, 1) = Len(d)

\* Number.parseInt(value, 10), for a value integerRegex accepts.
parseInt(value) ==
    IF value[1] = "-" THEN 0 - DigitsValue(Tail(value)) ELSE DigitsValue(value)

\* Number.parseFloat(value): the longest numeric prefix, NaN when there is
\* none.  The values drawn hold no fraction and no exponent, so the prefix is
\* an optional sign and a run of digits.
parseFloat(value) ==
    LET neg == value # <<>> /\ value[1] = "-"
        d   == IF neg THEN Tail(value) ELSE value
        n   == DigitRun(d, 1)
        v   == DigitsValue(SubSeq(d, 1, n))
    IN  [nan |-> n = 0, value |-> IF neg THEN 0 - v ELSE v]

\* An absent width or density is 0: the code sets only values > 0 and tests
\* them by truthiness, which 0 and undefined share.
EmptyResult == [url |-> <<>>, width |-> 0, density |-> 0, error |-> ""]

\* One turn of the forEach callback (lines 427-463) for index > 0.
Descriptor(result, element) ==
    LET value    == SubSeq(element, 1, Len(element) - 1)
        postfix  == IF element = <<>> THEN "" ELSE element[Len(element)]
        next     ==
            IF postfix = "w" /\ integerRegex(value)
            THEN IF parseInt(value) <= 0
                 THEN [result EXCEPT !.error =
                          "Width descriptor must be greater than zero"]
                 ELSE [result EXCEPT !.width = parseInt(value)]
            ELSE IF postfix = "x" /\ ~parseFloat(value).nan
            THEN IF parseFloat(value).value <= 0
                 THEN [result EXCEPT !.error =
                          "Pixel density descriptor must be greater than zero"]
                 ELSE [result EXCEPT !.density = parseFloat(value).value]
            ELSE [result EXCEPT !.error = "Invalid srcset descriptor"]
    IN  IF next.error # "" THEN next
        ELSE IF next.width # 0 /\ next.density # 0
        THEN [next EXCEPT !.error =
                 "Image candidate string cannot have both descriptors"]
        ELSE next

RECURSIVE Descriptors(_, _)
Descriptors(result, elements) ==
    IF elements = <<>> \/ result.error # "" THEN result
    ELSE Descriptors(Descriptor(result, Head(elements)), Tail(elements))

\* The map callback of parseSrcset (lines 421-466) for one part.
ParsePart(part) ==
    LET elements == SplitWs(Trim(part), 1, <<>>)
    IN  Descriptors([EmptyResult EXCEPT !.url = Head(elements)],
                    Tail(elements))

\* String(element) of a candidate object, the key Array.prototype.sort
\* compares by when it is given no comparator.
ObjectToString(element) == "[object Object]"

\* The default sort comparator: < 0 when x sorts before y.  Two equal keys
\* compare 0; the other branch orders the keys, and no two keys differ.
SortCompare(x, y) ==
    IF ObjectToString(x) = ObjectToString(y) THEN 0 ELSE 1

\* array.sort(): a stable insertion sort under SortCompare.
RECURSIVE Insert(_, _)
Insert(sorted, x) ==
    IF sorted = <<>> THEN <<x>>
    ELSE LET last == sorted[Len(sorted)]
         IN  IF SortCompare(x, last) < 0
             THEN Append(Insert(SubSeq(sorted, 1, Len(sorted) - 1), x), last)
             ELSE Append(sorted, x)

RECURSIVE ArraySort(_)
ArraySort(array) ==
    IF array = <<>> THEN <<>>
    ELSE Insert(ArraySort(SubSeq(array, 1, Len(array) - 1)),
                array[Len(array)])

\* deepUnique (lines 411-415): sort, then drop each element whose JSON text
\* equals that of the element before it in the sorted array.
deepUnique(array) ==
    LET sorted == ArraySort(array)
        keep   == {i \in 1..Len(sorted) : i = 1 \/ sorted[i] # sorted[i - 1]}
        RECURSIVE Pick(_)
        Pick(i) == IF i > Len(sorted) THEN <<>>
                   ELSE (IF i \in keep THEN <<sorted[i]>> ELSE <<>>)
                        \o Pick(i + 1)
    IN  Pick(1)

\* parseSrcset (lines 419-468): the error of the first part that throws, or
\* the de-duplicated candidates.
parseSrcset(s) ==
    LET parts   == SplitCommaWs(s, 1, <<>>)
        results == [i \in 1..Len(parts) |-> ParsePart(parts[i])]
        bad     == {i \in 1..Len(parts) : results[i].error # ""}
        first   == CHOOSE i \in bad : \A j \in bad : i <= j
    IN  IF bad # {} THEN [error |-> results[first].error, value |-> <<>>]
        ELSE [error |-> "",
              value |-> deepUnique([i \in 1..Len(parts) |->
                            [url     |-> results[i].url,
                             width   |-> results[i].width,
                             density |-> results[i].density]])]

\* The text of one candidate (lines 473-488).
StringifyElement(element) ==
    element.url
    \o (IF element.width # 0
        THEN <<" ">> \o NumberToString(element.width) \o <<"w">> ELSE <<>>)
    \o (IF element.density # 0
        THEN <<" ">> \o NumberToString(element.density) \o <<"x">> ELSE <<>>)

\* [...new Set(array)]: the first occurrence of each value, in order.
RECURSIVE SetOrder(_, _)
SetOrder(array, seen) ==
    IF array = <<>> THEN <<>>
    ELSE IF Head(array) \in seen THEN SetOrder(Tail(array), seen)
    ELSE <<Head(array)>> \o SetOrder(Tail(array), seen \cup {Head(array)})

\* array.join(sep)
RECURSIVE Join(_, _)
Join(array, sep) ==
    IF array = <<>> THEN <<>>
    ELSE IF Len(array) = 1 THEN array[1]
    ELSE array[1] \o sep \o Join(Tail(array), sep)

\* stringifySrcset (lines 470-492).
stringifySrcset(array) ==
    IF \E i \in 1..Len(array) : array[i].url = <<>>
    THEN [error |-> "URL is required", value |-> <<>>]
    ELSE [error |-> "",
          value |-> Join(SetOrder([i \in 1..Len(array) |->
                                      StringifyElement(array[i])], {}),
                         <<",", " ">>)]

\* The srcset values drawn: candidates of a URL and at most one descriptor,
\* separated by a comma with or without a space after it.
Urls == {<<"a">>, <<"b">>}
ValidDescriptors == {<<>>, <<" ", "1", "x">>, <<" ", "2", "w">>}
BadDescriptors   == {<<" ", "0", "w">>}
Separators == {<<",", " ">>, <<",">>}

RECURSIVE Render(_, _)
Render(cands, seps) ==
    IF Len(cands) = 1 THEN cands[1]
    ELSE cands[1] \o seps[1] \o Render(Tail(cands), Tail(seps))

SrcsetsOver(descs) ==
    LET cands == {u \o d : u \in Urls, d \in descs}
    IN  UNION {{Render(c, s) : c \in SeqsOfLen(cands, n),
                               s \in SeqsOfLen(Separators, n - 1)}
               : n \in 1..MaxCands}

\* The syntactically valid srcset values among those drawn.
ValidSrcsets == SrcsetsOver(ValidDescriptors)

InitSrcset ==
    /\ pc = "parseSrcset"
    /\ threw = ""
    /\ string \in SrcsetsOver(ValidDescriptors \cup BadDescriptors)
    /\ parsed = <<>> /\ srcset = <<>>
    /\ IdleCss /\ IdleSize /\ IdleStage /\ IdleRewrite /\ IdleHidden
    /\ IdleIntercept

\* parseSrcset(el.srcset), line 501.
ParseSrcset ==
    /\ pc = "parseSrcset"
    /\ LET r == parseSrcset(string)
       IN  /\ threw' = r.error
           /\ parsed' = r.value
           /\ pc' = IF r.error = "" THEN "stringifySrcset" ELSE "threw"
    /\ UNCHANGED <<interceptVars, string, srcset, cssVars, sizeVars, stageVars, rewriteVars,
                   hiddenVars>>

\* el.srcset = stringifySrcset(...), line 500.
StringifySrcset ==
    /\ pc = "stringifySrcset"
    /\ LET r == stringifySrcset(parsed)
       IN  /\ threw' = r.error
           /\ srcset' = r.value
           /\ pc' = IF r.error = "" THEN "done" ELSE "threw"
    /\ UNCHANGED <<interceptVars, string, parsed, cssVars, sizeVars, stageVars, rewriteVars,
                   hiddenVars>>

NextSrcset == ParseSrcset \/ StringifySrcset

SpecSrcset == InitSrcset /\ [][NextSrcset]_vars

\* C6: the candidates parseSrcset returns are pairwise different, whatever
\* their positions in the input.
C6_NoEqualCandidates ==
    pc \in {"stringifySrcset", "done"} =>
        \A i, j \in 1..Len(parsed) : i # j => parsed[i] # parsed[j]

\* C7: for a syntactically valid srcset value, parseSrcset does not throw
\* and stringifySrcset(parseSrcset(s)) is a syntactically valid srcset value.
C7_ValidRoundTrip ==
    string \in ValidSrcsets =>
        /\ pc # "threw"
        /\ pc = "done" => srcset \in ValidSrcsets

----------------------------------------------------------------------------
(* Stylesheet pruner: tackleCSSGroup *)

PseudoElements ==
    {<<":", ":", "b", "e", "f", "o", "r", "e">>,
     <<":", ":", "a", "f", "t", "e", "r">>,
     <<":", "b", "e", "f", "o", "r", "e">>,
     <<":", "a", "f", "t", "e", "r">>}

\* selectorText.replace(/::?(before|after)/g, ''), scanning from s[i].
RECURSIVE StripPseudo(_, _)
StripPseudo(s, i) ==
    IF i > Len(s) THEN <<>>
    ELSE LET hit == {p \in PseudoElements : MatchesAt(s, p, i)}
         IN  IF hit # {}
             THEN LET p == CHOOSE q \in hit : \A r \in hit : Len(q) >= Len(r)
                  IN  StripPseudo(s, i + Len(p))
             ELSE <<s[i]>> \o StripPseudo(s, i + 1)

\* The live document holds <a> elements and no <z> element.
LiveElements == {<<"a">>}
TypeSelectors == {<<"a">>, <<"z">>}

\* document.querySelector(selector): a SyntaxError for text that is no
\* selector (the empty string included), else the first match or null.
querySelector(selector) ==
    IF selector \notin TypeSelectors THEN "SyntaxError"
    ELSE IF selector \in LiveElements THEN "element"
    ELSE "null"

\* A pruner with no try/catch around the query: whatever is not found goes.
MarksUnlessFound(query) == query # "element"

\* Lines 547-554: a style rule is marked when the query returns null; a
\* query that throws is caught and marks nothing.
MarksStyleRule(query) == query = "null"

\* Line 557: a grouping rule is marked when no child rule is left.
MarksGroupingRule(cssRules) == Len(cssRules) = 0

\* Line 566: indexesToDelete.slice().reverse()
RECURSIVE Reverse(_)
Reverse(array) ==
    IF array = <<>> THEN <<>> ELSE Append(Reverse(Tail(array)), Head(array))

\* Deleting by ascending index, each deletion shifting the later rules.
DeleteAscending(indexesToDelete) == indexesToDelete

DeleteOrder(indexesToDelete) == Reverse(indexesToDelete)

\* group.deleteRule(index), index counted from 0; an index past the end
\* throws IndexSizeError.
deleteRule(group, index) ==
    IF index >= Len(group.cssRules)
    THEN [group EXCEPT !.error = "IndexSizeError"]
    ELSE [group EXCEPT !.cssRules =
             SubSeq(group.cssRules, 1, index)
             \o SubSeq(group.cssRules, index + 2, Len(group.cssRules))]

\* Lines 566-568.
RECURSIVE DeleteRules(_, _)
DeleteRules(group, indexes) ==
    IF indexes = <<>> \/ group.error # "" THEN group
    ELSE DeleteRules(deleteRule(group, Head(indexes)), Tail(indexes))

StyleRule(selectorText) ==
    [kind |-> "CSSStyleRule", selectorText |-> selectorText, cssRules |-> <<>>]
GroupingRule(cssRules) ==
    [kind |-> "CSSGroupingRule", selectorText |-> <<>>, cssRules |-> cssRules]
ImportRule ==
    [kind |-> "CSSImportRule", selectorText |-> <<>>, cssRules |-> <<>>]
FontFaceRule ==
    [kind |-> "CSSFontFaceRule", selectorText |-> <<>>, cssRules |-> <<>>]

\* tackleCSSGroup (lines 539-569) on a rule list: the list left, the number
\* of warnings logged and the error thrown, if any.
RECURSIVE tackleCSSGroup(_)
tackleCSSGroup(cssRules) ==
    LET Visit(rule) ==
            IF rule.kind = "CSSStyleRule"
            THEN LET selector == StripPseudo(rule.selectorText, 1)
                     query    == querySelector(selector)
                 IN  [rule |-> rule, delete |-> MarksStyleRule(query),
                      warnings |-> IF query = "SyntaxError" THEN 1 ELSE 0,
                      error |-> ""]
            ELSE IF rule.kind = "CSSGroupingRule"
            THEN LET inner == tackleCSSGroup(rule.cssRules)
                 IN  [rule |-> [rule EXCEPT !.cssRules = inner.cssRules],
                      delete |-> MarksGroupingRule(inner.cssRules),
                      warnings |-> inner.warnings, error |-> inner.error]
            ELSE IF rule.kind = "CSSImportRule"
            THEN [rule |-> rule, delete |-> TRUE, warnings |-> 0, error |-> ""]
            ELSE [rule |-> rule, delete |-> FALSE, warnings |-> 0, error |-> ""]
        RECURSIVE Loop(_, _)
        \* the for loop of lines 541-564 from rule i on; acc is the state
        Loop(i, acc) ==
            IF i > Len(cssRules) \/ acc.error # "" THEN acc
            ELSE LET v == Visit(cssRules[i])
                 IN  Loop(i + 1,
                          [cssRules |-> Append(acc.cssRules, v.rule),
                           indexesToDelete |->
                               IF v.delete
                               THEN Append(acc.indexesToDelete, i - 1)
                               ELSE acc.indexesToDelete,
                           warnings |-> acc.warnings + v.warnings,
                           error |-> v.error])
        walked == Loop(1, [cssRules |-> <<>>, indexesToDelete |-> <<>>,
                           warnings |-> 0, error |-> ""])
        \* a throw inside the loop leaves the rules not yet visited in place
        group  == [cssRules |-> walked.cssRules
                       \o SubSeq(cssRules, Len(walked.cssRules) + 1,
                                 Len(cssRules)),
                   error |-> walked.error]
        pruned == DeleteRules(group, DeleteOrder(walked.indexesToDelete))
    IN  [cssRules |-> pruned.cssRules, warnings |-> walked.warnings,
         error |-> pruned.error]

\* The selectors drawn.
Selectors ==
    {<<"a">>, <<"z">>, <<"!">>,
     <<"z", ":", ":", "b", "e", "f", "o", "r", "e">>,
     <<":", "a", "f", "t", "e", "r">>}

LeafRules ==
    {StyleRule(sel) : sel \in Selectors}
    \cup {ImportRule, FontFaceRule, GroupingRule(<<>>)}

\* Every rule list of exactly n rules, nested ones counted.
RECURSIVE RuleLists(_)
RuleLists(n) ==
    IF n = 0 THEN {<<>>}
    ELSE UNION {
        {<<first>> \o rest :
            first \in (IF k = 1 THEN LeafRules
                       ELSE {GroupingRule(kids) : kids \in RuleLists(k - 1)}),
            rest \in RuleLists(n - k)}
        : k \in 1..n}

InitCss ==
    /\ pc = "tackleCSSGroup"
    /\ threw = ""
    /\ cssText \in UNION {RuleLists(n) : n \in 0..MaxNodes}
    /\ styleSheet = cssText
    /\ warnings = 0
    /\ ownerNode = "present"
    /\ IdleSrcset /\ IdleSize /\ IdleStage /\ IdleRewrite /\ IdleHidden
    /\ IdleIntercept

\* One turn of the loop over document.styleSheets (lines 570-578).
TackleStyleSheet ==
    /\ pc = "tackleCSSGroup"
    /\ LET r == tackleCSSGroup(styleSheet)
       IN  /\ styleSheet' = r.cssRules
           /\ warnings' = r.warnings
           /\ threw' = r.error
           /\ pc' = IF r.error = "" THEN "done" ELSE "threw"
           /\ ownerNode' = IF r.error = "" /\ Len(r.cssRules) = 0
                           THEN "removed" ELSE ownerNode
    /\ UNCHANGED <<interceptVars, cssText, srcsetVars, sizeVars, stageVars, rewriteVars,
                   hiddenVars>>

NextCss == TackleStyleSheet

SpecCss == InitCss /\ [][NextCss]_vars

\* Whether the selector of a style rule makes the document query throw.
QueryThrows(rule) ==
    /\ rule.kind = "CSSStyleRule"
    /\ querySelector(StripPseudo(rule.selectorText, 1)) = "SyntaxError"

QueryFindsNone(rule) ==
    /\ rule.kind = "CSSStyleRule"
    /\ querySelector(StripPseudo(rule.selectorText, 1)) = "null"

RECURSIVE NoEmptyGroup(_)
NoEmptyGroup(cssRules) ==
    \A i \in 1..Len(cssRules) :
        cssRules[i].kind = "CSSGroupingRule" =>
            /\ Len(cssRules[i].cssRules) > 0
            /\ NoEmptyGroup(cssRules[i].cssRules)

\* The rules of a list that the walk leaves unmarked, in order, each
\* grouping rule holding the unmarked rules of its own list.
RECURSIVE Unmarked(_)
Unmarked(cssRules) ==
    IF cssRules = <<>> THEN <<>>
    ELSE LET rule == Head(cssRules)
             kept ==
                 IF rule.kind = "CSSGroupingRule"
                 THEN LET kids == Unmarked(rule.cssRules)
                      IN  IF kids = <<>> THEN <<>>
                          ELSE <<[rule EXCEPT !.cssRules = kids]>>
                 ELSE IF rule.kind = "CSSImportRule" \/ QueryFindsNone(rule)
                 THEN <<>>
                 ELSE <<rule>>
         IN  kept \o Unmarked(Tail(cssRules))

\* C8: after tackleCSSGroup no grouping rule without child rules is left at
\* any depth, and each rule list has lost exactly its marked rules: what is
\* left is the list of unmarked rules, in order, and deleteRule never throws.
C8_NoEmptyGroupLeft ==
    /\ pc # "threw"
    /\ pc = "done" =>
          /\ NoEmptyGroup(styleSheet)
          /\ styleSheet = Unmarked(cssText)

\* A media rule whose only child matches nothing has gone with its child,
\* while another rule of the sheet stays.
C8_Witness ==
    /\ pc = "done"
    /\ \E i \in 1..Len(cssText) :
          /\ cssText[i].kind = "CSSGroupingRule"
          /\ Len(cssText[i].cssRules) = 1
          /\ QueryFindsNone(cssText[i].cssRules[1])
    /\ Len(styleSheet) < Len(cssText)
    /\ styleSheet # <<>>

\* The selectors of the style rules whose query throws, in document order.
RECURSIVE ThrowingSelectors(_)
ThrowingSelectors(cssRules) ==
    IF cssRules = <<>> THEN <<>>
    ELSE (IF QueryThrows(Head(cssRules)) THEN <<Head(cssRules).selectorText>>
          ELSE ThrowingSelectors(Head(cssRules).cssRules))
         \o ThrowingSelectors(Tail(cssRules))

RECURSIVE AllRules(_)
AllRules(cssRules) ==
    IF cssRules = <<>> THEN {}
    ELSE {Head(cssRules)} \cup AllRules(Head(cssRules).cssRules)
         \cup AllRules(Tail(cssRules))

\* C9: every style rule whose selector makes the query throw is still in the
\* sheet after pruning, at whatever depth, one warning is logged for each,
\* and the other rules are pruned all the same.
C9_ThrowingRuleKept ==
    pc = "done" =>
        /\ ThrowingSelectors(styleSheet) = ThrowingSelectors(cssText)
        /\ warnings = Len(ThrowingSelectors(cssText))
        /\ \A rule \in AllRules(styleSheet) :
              ~QueryFindsNone(rule) /\ rule.kind # "CSSImportRule"

\* A rule whose query throws sits inside a grouping rule, next to a rule
\* that was pruned.
C9_Witness ==
    /\ pc = "done"
    /\ \E i \in 1..Len(cssText) :
          /\ cssText[i].kind = "CSSGroupingRule"
          /\ ThrowingSelectors(cssText[i].cssRules) # <<>>
          /\ \E rule \in AllRules(cssText[i].cssRules) : QueryFindsNone(rule)
    /\ warnings >= 1
    /\ styleSheet # cssText

----------------------------------------------------------------------------
(* Size report: sizeReport and the report printed by main *)

\* The number standing for JavaScript's Infinity; sizes are >= 0.
Infinity == -1

\* a + b on numbers that may be Infinity.
Plus(a, b) == IF a = Infinity \/ b = Infinity THEN Infinity ELSE a + b

\* Number(header) || Infinity (lines 212, 241): a missing header (<<>>) gives
\* NaN and a header of "0" gives 0, both falsy.
OriginalSize(header) ==
    IF header = <<>> \/ DigitRun(header, 1) # Len(header) THEN Infinity
    ELSE IF DigitsValue(header) = 0 THEN Infinity
    ELSE DigitsValue(header)

types == {"document", "stylesheet", "script"}          \* line 201
CombinedTypes == {"script", "stylesheet"}              \* line 232

\* The responses a page load can capture: the resource type of the request,
\* the content-length header (<<>> when absent) and whether
\* response.buffer() resolves.
Responses ==
    [type : types \cup {"image"},
     contentLength : {<<>>, <<"5">>},
     body : {"ok", "unavailable"}]

Undefined == [defined |-> FALSE, type |-> "", originalSize |-> 0]

InitSizeReport ==
    /\ pc = "sizeReport"
    /\ threw = ""
    /\ resources \in SeqsUpTo(Responses, 0, MaxResponses)
    \* each callback has run up to its first await (lines 209-218, 233-238)
    /\ unit = [i \in 1..Len(resources) |->
                  IF resources[i].type \in types THEN "buffer" ELSE "done"]
    /\ typeUnit = [type \in CombinedTypes |-> "buffers"]
    /\ reportResources = <<>>
    /\ combined = [type \in CombinedTypes |-> Undefined]
    /\ printed = [type \in CombinedTypes |-> 0]
    /\ promise = "pending"
    /\ cause = ""
    /\ IdleSrcset /\ IdleCss /\ IdleRewrite /\ IdleHidden
    /\ IdleIntercept

\* A callback of the Promise.all of line 206 throws: the first rejection
\* settles the promise, and sizeReport, which awaits it, throws.
Reject(why) ==
    /\ promise' = "rejected"
    /\ cause' = why
    /\ threw' = why
    /\ pc' = "threw"

\* Line 218: entry.response.buffer() settles for resource i.
ResourceBuffer(i) ==
    /\ pc = "sizeReport" /\ unit[i] = "buffer"
    /\ IF resources[i].body = "ok"
       THEN /\ unit' = [unit EXCEPT ![i] = "compress"]
            /\ UNCHANGED <<pc, threw, promise, cause>>
       ELSE /\ unit' = [unit EXCEPT ![i] = "rejected"]
            /\ Reject("response.buffer")
    /\ UNCHANGED <<interceptVars, resources, srcsetVars, cssVars, sizeVars, rewriteVars,
                   hiddenVars>>

\* Lines 220-230: both compressions of resource i resolve and its entry is
\* pushed.  The compressed sizes are the codecs' and are left out.
ResourceCompress(i) ==
    /\ pc = "sizeReport" /\ unit[i] = "compress"
    /\ unit' = [unit EXCEPT ![i] = "done"]
    /\ reportResources' = Append(reportResources,
           [type |-> resources[i].type,
            originalSize |-> OriginalSize(resources[i].contentLength)])
    /\ UNCHANGED <<interceptVars, pc, threw, resources, promise, cause, typeUnit, combined,
                   printed, srcsetVars, cssVars, rewriteVars, hiddenVars>>

\* resources.filter(...) of lines 233-235, as indexes.
TypedResources(type) ==
    SelectSeq([i \in 1..Len(resources) |-> i],
              LAMBDA i : resources[i].type = type)

\* sizes.reduce((a, b) => a + b), line 243: no initial value.
RECURSIVE ReducePlus(_)
ReducePlus(sizes) ==
    IF Len(sizes) = 1 THEN sizes[1]
    ELSE Plus(ReducePlus(SubSeq(sizes, 1, Len(sizes) - 1)), sizes[Len(sizes)])

\* Lines 236-244: the buffers of one type settle; then the sizes are summed.
\* combined[type] holds the local originalSize from here on and becomes
\* defined when the result is assigned.
TypeBuffers(type) ==
    /\ pc = "sizeReport" /\ typeUnit[type] = "buffers"
    /\ LET typedResources == TypedResources(type)
           sizes == [k \in 1..Len(typedResources) |->
                        OriginalSize(resources[typedResources[k]].contentLength)]
       IN  IF \E k \in 1..Len(typedResources) :
                  resources[typedResources[k]].body # "ok"
           THEN /\ typeUnit' = [typeUnit EXCEPT ![type] = "rejected"]
                /\ Reject("response.buffer")
                /\ UNCHANGED combined
           ELSE IF sizes = <<>>
           THEN /\ typeUnit' = [typeUnit EXCEPT ![type] = "rejected"]
                /\ Reject("TypeError: Reduce of empty array with no initial value")
                /\ UNCHANGED combined
           ELSE /\ typeUnit' = [typeUnit EXCEPT ![type] = "compress"]
                /\ combined' = [combined EXCEPT ![type] =
                       [defined |-> FALSE, type |-> type,
                        originalSize |-> ReducePlus(sizes)]]
                /\ UNCHANGED <<pc, threw, promise, cause>>
    /\ UNCHANGED <<interceptVars, resources, unit, reportResources, printed, srcsetVars,
                   cssVars, rewriteVars, hiddenVars>>

\* Lines 245-261: the compressions of the concatenation resolve and the
\* result is assigned to cssSizeReport or jsSizeReport.
TypeCompress(type) ==
    /\ pc = "sizeReport" /\ typeUnit[type] = "compress"
    /\ typeUnit' = [typeUnit EXCEPT ![type] = "done"]
    /\ combined' = [combined EXCEPT ![type].defined = TRUE]
    /\ UNCHANGED <<interceptVars, pc, threw, resources, unit, promise, cause,
                   reportResources, printed, srcsetVars, cssVars,
                   rewriteVars, hiddenVars>>

\* Lines 263-269: every callback has resolved; sizeReport returns.
SizeReportReturns ==
    /\ pc = "sizeReport"
    /\ \A i \in 1..Len(unit) : unit[i] = "done"
    /\ \A type \in CombinedTypes : typeUnit[type] = "done"
    /\ promise' = "resolved"
    /\ pc' = "main"
    /\ UNCHANGED <<interceptVars, threw, resources, unit, cause, sizeVars, srcsetVars,
                   cssVars, rewriteVars, hiddenVars>>

\* reduce((a, b) => (b === Infinity ? a : a + b), 0), lines 682-684.
RECURSIVE SeparateOriginalSize(_)
SeparateOriginalSize(sizes) ==
    IF sizes = <<>> THEN 0
    ELSE LET a == SeparateOriginalSize(SubSeq(sizes, 1, Len(sizes) - 1))
             b == sizes[Len(sizes)]
         IN  IF b = Infinity THEN a ELSE a + b

\* Lines 678-706: main prints, for each type, the sizes of its resources
\* taken separately.
MainPrints ==
    /\ pc = "main"
    /\ printed' = [type \in CombinedTypes |->
          LET entries == SelectSeq(reportResources,
                                   LAMBDA r : r.type = type)
          IN  SeparateOriginalSize([k \in 1..Len(entries) |->
                                       entries[k].originalSize])]
    /\ pc' = "done"
    /\ UNCHANGED <<interceptVars, threw, stageVars, typeUnit, reportResources, combined,
                   srcsetVars, cssVars, rewriteVars, hiddenVars>>

NextSizeReport ==
    \/ \E i \in 1..Len(resources) : ResourceBuffer(i)
    \/ \E i \in 1..Len(resources) : ResourceCompress(i)
    \/ \E type \in CombinedTypes : TypeBuffers(type)
    \/ \E type \in CombinedTypes : TypeCompress(type)
    \/ SizeReportReturns
    \/ MainPrints

SpecSizeReport == InitSizeReport /\ [][NextSizeReport]_vars

\* C3: a per-resource operation that fails never makes the promise of the
\* stage reject.
C3_FailureNeverRejects ==
    ~(promise = "rejected" /\ cause = "response.buffer")

\* C4: whatever was captured (and with every body fetched), sizeReport
\* returns, with both combined entries defined.
C4_TwoCombinedEntries ==
    (pc # "sizeReport" /\ \A i \in 1..Len(resources) : resources[i].body = "ok")
        => /\ promise = "resolved"
           /\ \A type \in CombinedTypes : combined[type].defined

\* The resources of a type whose response has no content-length header.
NoContentLength(type) ==
    {i \in 1..Len(resources) :
        resources[i].type = type /\ resources[i].contentLength = <<>>}

\* What sizeReport itself computes for such a resource: an entry of unknown
\* size for each, and a sum of unknown size for the combined entry.
SizeReportPropagates ==
    \A type \in CombinedTypes : NoContentLength(type) # {} =>
        /\ promise = "resolved" =>
              Cardinality(NoContentLength(type)) =
                 Cardinality({k \in 1..Len(reportResources) :
                     /\ reportResources[k].type = type
                     /\ reportResources[k].originalSize = Infinity})
        /\ typeUnit[type] \in {"compress", "done"} =>
              combined[type].originalSize = Infinity

\* C10: when a stylesheet or script response has no content-length, its
\* entry's originalSize is Infinity and every aggregate original size of its
\* type is Infinity too: the combined entry and the total main prints.
C10_UnknownPropagates ==
    /\ SizeReportPropagates
    /\ pc = "done" =>
          \A type \in CombinedTypes : NoContentLength(type) # {} =>
              printed[type] = Infinity

\* The entry of resource i, as lines 225-230 build it.
Entry(i) ==
    [type |-> resources[i].type,
     originalSize |-> OriginalSize(resources[i].contentLength)]

\* The entries of the resources reported, one per resource of a type in
\* types, in the order of the resources list.
EntriesInListOrder ==
    LET reported == SelectSeq([i \in 1..Len(resources) |-> i],
                              LAMBDA i : resources[i].type \in types)
    IN  [k \in 1..Len(reported) |-> Entry(reported[k])]

\* C12: the entry list sizeReport returns is the same for every order in
\* which the per-resource callbacks complete: it is the list they give when
\* they complete in the order of the resources list.
C12_EntriesIgnoreCompletionOrder ==
    promise = "resolved" => reportResources = EntriesInListOrder

\* The entries returned are those of the list, each as often, in some order.
EntriesSameUpToOrder ==
    promise = "resolved" =>
        /\ Len(reportResources) = Len(EntriesInListOrder)
        /\ \A k \in 1..Len(reportResources) :
              Cardinality({j \in 1..Len(reportResources) :
                              reportResources[j] = reportResources[k]})
              = Cardinality({j \in 1..Len(EntriesInListOrder) :
                                EntriesInListOrder[j] = reportResources[k]})

----------------------------------------------------------------------------
(* Visibility pruner: removeHiddenElements *)

\* The sampled states drawn (lines 139-146).
Shown == [width |-> 10, height |-> 10, opacity |-> "1",
          visibility |-> "visible", overflow |-> "visible",
          display |-> "block"]

ElementStates ==
    {Shown,
     [Shown EXCEPT !.opacity = "0"],
     [Shown EXCEPT !.display = "none", !.width = 0, !.height = 0],
     [Shown EXCEPT !.visibility = "hidden"],
     [Shown EXCEPT !.overflow = "hidden", !.width = 0],
     [Shown EXCEPT !.overflow = "hidden", !.height = 0],
     [Shown EXCEPT !.overflow = "hidden"],
     [Shown EXCEPT !.width = 0, !.height = 0]}

Tags == {"div", "style", "source"}

\* Lines 155-159.
hidden(state) ==
    \/ state.opacity = "0"
    \/ state.display = "none"
    \/ state.visibility = "hidden"
    \/ (state.overflow = "hidden" /\ (state.width = 0 \/ state.height = 0))

\* The elements under body in document order; parent 0 is body itself and
\* an element's parent comes before it.
Documents ==
    UNION {
        {d \in [1..n -> [parent : 0..MaxEls, tag : Tags,
                         state : ElementStates, removed : {FALSE}]] :
            \A i \in 1..n : d[i].parent < i}
        : n \in 0..MaxEls}

\* Whether element i is in the document: neither it nor an ancestor has
\* been removed.
RECURSIVE InDocument(_, _)
InDocument(d, i) ==
    i = 0 \/ (~d[i].removed /\ InDocument(d, d[i].parent))

\* page.content(): the elements serialised.
Serialize(d) == {i \in 1..Len(d) : InDocument(d, i)}

InitRemoveHidden ==
    \* page.goto has resolved (line 130); the call of page.evaluate of line
    \* 132 has been made and its promise dropped.
    /\ pc = "content"
    /\ threw = ""
    /\ dom \in Documents
    /\ evaluated = FALSE
    /\ content = {}
    /\ IdleSrcset /\ IdleCss /\ IdleSize /\ IdleStage /\ IdleRewrite
    /\ IdleIntercept

\* The function given to page.evaluate runs in the page (lines 133-161):
\* every state is sampled first, then each hidden element is removed.
PageEvaluate ==
    /\ pc = "content" /\ ~evaluated
    /\ dom' = [i \in 1..Len(dom) |->
                  IF dom[i].tag \in {"style", "source"} THEN dom[i]
                  ELSE [dom[i] EXCEPT !.removed = hidden(dom[i].state)]]
    /\ evaluated' = TRUE
    /\ UNCHANGED <<interceptVars, pc, threw, content, srcsetVars, cssVars, sizeVars,
                   stageVars, rewriteVars>>

\* await page.content() (line 164) is served and the function returns.
\* Nothing awaits the evaluation, so the code puts no order between the two.
PageContent ==
    /\ pc = "content"
    /\ content' = Serialize(dom)
    /\ pc' = "done"
    /\ UNCHANGED <<interceptVars, threw, dom, evaluated, srcsetVars, cssVars, sizeVars,
                   stageVars, rewriteVars>>

NextRemoveHidden == PageEvaluate \/ PageContent

SpecRemoveHidden == InitRemoveHidden /\ [][NextRemoveHidden]_vars

\* C5: the markup removeHiddenElements returns holds no element, other than
\* style and source elements, whose sampled state is hidden.
C5_NoHiddenElementReturned ==
    pc = "done" =>
        \A i \in content :
            dom[i].tag \notin {"style", "source"} => ~hidden(dom[i].state)

----------------------------------------------------------------------------
(* Resource rewriter: the urlMap and the replacement loop of optimiseAndOutput *)

\* escapeHTML(string) of the escape-html package.
escapeHTML(s) ==
    Concat([k \in 1..Len(s) |->
        CASE s[k] = "&" -> <<"&", "a", "m", "p", ";">>
          [] s[k] = "<" -> <<"&", "l", "t", ";">>
          [] s[k] = ">" -> <<"&", "g", "t", ";">>
          [] s[k] = "\"" -> <<"&", "q", "u", "o", "t", ";">>
          [] s[k] = "'" -> <<"&", "#", "3", "9", ";">>
          [] OTHER -> <<s[k]>>])

\* s.replaceAll(from, to) with a string pattern: the matches are taken left
\* to right and do not overlap.
RECURSIVE ReplaceFrom(_, _, _, _)
ReplaceFrom(s, from, to, i) ==
    IF i > Len(s) THEN <<>>
    ELSE IF MatchesAt(s, from, i)
         THEN to \o ReplaceFrom(s, from, to, i + Len(from))
         ELSE <<s[i]>> \o ReplaceFrom(s, from, to, i + 1)

replaceAll(s, from, to) == ReplaceFrom(s, from, to, 1)

\* new URL(url).pathname; the origin https://host is written as the one
\* character h, the path runs from the first / to the first ? or #.
RECURSIVE UpTo(_, _)
UpTo(s, stops) ==
    IF s = <<>> \/ Head(s) \in stops THEN <<>>
    ELSE <<Head(s)>> \o UpTo(Tail(s), stops)

pathname(url) ==
    LET start == Len(UpTo(url, {"/"})) + 1
    IN  UpTo(SubSeq(url, start, Len(url)), {"?", "#"})

IsLetter(c) ==
    c \in {"a", "b", "c", "d", "e", "f", "g", "h", "i", "j", "k", "l", "m",
           "n", "o", "p", "q", "r", "s", "t", "u", "v", "w", "x", "y", "z"}
IsWordChar(c) == IsLetter(c) \/ IsDigit(c) \/ c = "_"

\* (/\.([a-zA-Z]\w{3,5})$/.exec(pathname) || [])[1], line 597: a final dot
\* followed by a letter and 3 to 5 word characters; <<>> when no match.
PathExtension(path) ==
    LET dots == {i \in 1..Len(path) : path[i] = "."}
        last == CHOOSE i \in dots : \A j \in dots : j <= i
        tail == SubSeq(path, last + 1, Len(path))
    IN  IF dots = {} THEN <<>>
        ELSE IF /\ Len(tail) \in 4..6
                /\ IsLetter(tail[1])
                /\ \A k \in 2..Len(tail) : IsWordChar(tail[k])
        THEN tail ELSE <<>>

\* getExtension(contentType) of the mime package, for the types drawn;
\* <<>> stands for null.
getExtension(contentType) ==
    CASE contentType = "image/png" -> <<"p", "n", "g">>
      [] contentType = "text/css"  -> <<"c", "s", "s">>
      [] OTHER -> <<>>

\* Lines 595-597.
Extension(resource) ==
    IF getExtension(resource.contentType) # <<>>
    THEN getExtension(resource.contentType)
    ELSE PathExtension(pathname(resource.url))

\* A file name of ordinal i + 1 instead of i.
FileNameFromOne(i, ext) == NumberToString(i + 1) \o <<".">> \o ext

\* `${i}.${ext}`, line 603.
FileName(i, ext) == NumberToString(i) \o <<".">> \o ext

\* The responses the page load can capture: url and content-type header
\* ("" when absent).
Captured ==
    {[url |-> <<"h", "/", "a">>, contentType |-> "image/png"],
     [url |-> <<"h", "/", "a", ".", "w", "e", "b", "p">>, contentType |-> ""],
     [url |-> <<"h", "/", "c", "?", "x", "&", "y">>, contentType |-> "text/css"],
     [url |-> <<"h", "/", "d", ".", "j", "s">>,
      contentType |-> "application/x-unknown"]}

\* A reference of the document, as page.content() writes it: the URL as it
\* is, or escaped inside an attribute value.
ReferenceText(ref) == IF ref.escaped THEN escapeHTML(ref.url) ELSE ref.url

References ==
    {ref \in [url : {c.url : c \in Captured}, escaped : BOOLEAN] :
        ref.escaped => escapeHTML(ref.url) # ref.url}

\* The serialised document: the references, one space between two.
Markup(refs) ==
    Join([k \in 1..Len(refs) |-> ReferenceText(refs[k])], <<" ">>)

\* Lines 586-591: the captured resources the document text holds.
Referenced(source) ==
    SelectSeq(resources,
              LAMBDA resource :
                  \/ Includes(source, resource.url)
                  \/ Includes(source, escapeHTML(resource.url)))

\* Lines 592-604: the map callback for the resource at index i (from 0) of
\* the filtered list, up to its first await.
StartUnit(resource, i) ==
    IF Extension(resource) = <<>>
    THEN [pc |-> "done", from |-> resource.url, to |-> <<>>,
          fileName |-> <<>>]
    ELSE [pc |-> "writeFile", from |-> resource.url, to |-> <<>>,
          fileName |-> FileName(i, Extension(resource))]

IndexHtml == <<"i", "n", "d", "e", "x", ".", "h", "t", "m", "l">>

InitOptimise ==
    \* page.content() of line 584 has returned and the callbacks of the
    \* Promise.all of line 585 have started.
    /\ pc = "urlMap"
    /\ threw = ""
    /\ resources \in SeqsUpTo(Captured, 0, MaxRes)
    /\ references \in SeqsUpTo(References, 0, MaxRefs)
    /\ optimizedSource = Markup(references)
    /\ unit = LET list == Referenced(Markup(references))
              IN  [k \in 1..Len(list) |-> StartUnit(list[k], k - 1)]
    /\ urlMap = <<>>
    /\ out = {}
    /\ promise = "pending"
    /\ cause = ""
    /\ IdleSrcset /\ IdleCss /\ IdleSize /\ IdleHidden
    /\ IdleIntercept

\* Lines 605-614: buffer() and fs.writeFile settle for unit k; a failure of
\* either is caught.
WriteFile(k) ==
    /\ pc = "urlMap" /\ unit[k].pc = "writeFile"
    /\ \E ok \in BOOLEAN :
          IF ok
          THEN /\ out' = out \cup {unit[k].fileName}
               /\ unit' = [unit EXCEPT ![k].pc = "done",
                                       ![k].to = unit[k].fileName]
          ELSE /\ out' = out
               /\ unit' = [unit EXCEPT ![k].pc = "done"]
    /\ UNCHANGED <<interceptVars, pc, threw, resources, promise, cause, references,
                   optimizedSource, urlMap, srcsetVars, cssVars, sizeVars,
                   hiddenVars>>

\* Lines 618-622, from entry k of the map on.
RECURSIVE ReplaceLoop(_, _, _)
ReplaceLoop(source, map, k) ==
    IF k > Len(map) THEN source
    ELSE IF map[k].to = <<>> THEN ReplaceLoop(source, map, k + 1)
    ELSE ReplaceLoop(
             replaceAll(replaceAll(source, map[k].from, map[k].to),
                        escapeHTML(map[k].from), map[k].to),
             map, k + 1)

\* Lines 616-636: Promise.all resolves with the pairs in list order, the
\* URLs are replaced and index.html is written.  (The minifier of line 625
\* is an external text transformer and is left out.)
ReplaceUrls ==
    /\ pc = "urlMap"
    /\ \A k \in 1..Len(unit) : unit[k].pc = "done"
    /\ urlMap' = [k \in 1..Len(unit) |->
                     [from |-> unit[k].from, to |-> unit[k].to]]
    /\ optimizedSource' = ReplaceLoop(optimizedSource, urlMap', 1)
    /\ out' = out \cup {IndexHtml}
    /\ promise' = "resolved"
    /\ pc' = "done"
    /\ UNCHANGED <<interceptVars, threw, resources, unit, cause, references, srcsetVars,
                   cssVars, sizeVars, hiddenVars>>

NextOptimise ==
    \/ \E k \in 1..Len(unit) : WriteFile(k)
    \/ ReplaceUrls

SpecOptimise == InitOptimise /\ [][NextOptimise]_vars

\* The ordinal a file name starts with.
Ordinal(fileName) == DigitsValue(UpTo(fileName, {"."}))

\* The resource files written to out/.
ResourceFiles == out \ {IndexHtml}

\* C1 as stated: the N resource files written are named 0.<ext> ...
\* (N-1).<ext>, with no gap, also when a referenced resource is skipped.
C1_OrdinalsWithoutGaps ==
    pc = "done" =>
        {Ordinal(f) : f \in ResourceFiles} = 0..(Cardinality(ResourceFiles) - 1)

\* C1 as amended: a written resource's file is named by its position in the
\* list of referenced resources, in capture order, with the extension of its
\* content type when that resolves; a skipped resource leaves its ordinal
\* unused, and with no resource skipped the names are 0.<ext> ... (N-1).<ext>.
C1_OrdinalIsListPosition ==
    pc = "done" =>
        LET list    == Referenced(Markup(references))
            written == {k \in 1..Len(urlMap) : urlMap[k].to # <<>>}
        IN  /\ Len(urlMap) = Len(list)
            /\ \A k \in 1..Len(urlMap) : urlMap[k].from = list[k].url
            /\ ResourceFiles = {urlMap[k].to : k \in written}
            /\ \A k \in written :
                  /\ Ordinal(urlMap[k].to) = k - 1
                  /\ urlMap[k].to =
                        NumberToString(k - 1) \o <<".">> \o Extension(list[k])
                  /\ getExtension(list[k].contentType) # <<>> =>
                        urlMap[k].to = NumberToString(k - 1) \o <<".">>
                                       \o getExtension(list[k].contentType)
            /\ written = 1..Len(urlMap) =>
                  {Ordinal(f) : f \in ResourceFiles} = 0..(Len(urlMap) - 1)

\* A referenced resource was skipped and a later one was written.
C1_Witness ==
    /\ pc = "done"
    /\ \E j, k \in 1..Len(urlMap) :
          j < k /\ urlMap[j].to = <<>> /\ urlMap[k].to # <<>>
    /\ ResourceFiles # {}

\* The local file name given to a URL: that of the first map entry for it
\* that has one, <<>> when there is none.
LocalName(url) ==
    LET named == {k \in 1..Len(urlMap) :
                     urlMap[k].from = url /\ urlMap[k].to # <<>>}
    IN  IF named = {} THEN <<>>
        ELSE urlMap[CHOOSE k \in named : \A j \in named : k <= j].to

\* C2: after the replacement loop no URL that received a local file name
\* occurs in the text, as it is or escaped, and every reference to such a
\* URL has become exactly that file name, whatever URLs the map holds and
\* in whatever order.
C2_EveryReferenceRewritten ==
    pc = "done" =>
        LET words == SplitWs(optimizedSource, 1, <<>>)
        IN  /\ \A k \in 1..Len(urlMap) : urlMap[k].to # <<>> =>
                  /\ ~Includes(optimizedSource, urlMap[k].from)
                  /\ ~Includes(optimizedSource, escapeHTML(urlMap[k].from))
            /\ \A r \in 1..Len(references) :
                  LocalName(references[r].url) # <<>> =>
                      words[r] = LocalName(references[r].url)

----------------------------------------------------------------------------
(* Network substitution: the 'request' handlers of removeHiddenElements and
   optimiseAndOutput *)

\* The url argument: the page's own URL.
url == <<"h", "/">>

\* The URLs the page requests while it loads.
RequestUrls ==
    {url,
     <<"h", "/", "f", ".", "w", "o", "f", "f">>,
     <<"h", "/", "f", ".", "w", "o", "f", "f", "2">>,
     <<"h", "/", "i", ".", "p", "n", "g">>,
     <<"h", "/", "i", "?", "f", ".", "w", "o", "f", "f">>}

\* s.endsWith(t)
endsWith(s, t) ==
    Len(t) <= Len(s) /\ SubSeq(s, Len(s) - Len(t) + 1, Len(s)) = t

\* Line 300: ['woff', 'woff2'], in the order the loop tries them.
fontTypes == <<<<"w", "o", "f", "f">>, <<"w", "o", "f", "f", "2">>>>

\* Lines 300-301: the first font type whose suffix ends the path, <<>> when
\* the loop finds none.
FontType(requestUrl) ==
    LET hits == {k \in 1..Len(fontTypes) :
                    endsWith(pathname(requestUrl), <<".">> \o fontTypes[k])}
    IN  IF hits = {} THEN <<>>
        ELSE fontTypes[CHOOSE k \in hits : \A j \in hits : k <= j]

\* interceptedRequest.respond({contentType: 'text/html', body: source})
RespondSource ==
    [by |-> "respond", contentType |-> <<"t", "e", "x", "t", "/", "h", "t",
                                         "m", "l">>, body |-> "source"]

\* interceptedRequest.respond({body: buffer, contentType: `font/${fontType}`})
RespondFont(fontType) ==
    [by |-> "respond", contentType |-> <<"f", "o", "n", "t", "/">> \o fontType,
     body |-> "buffer"]

\* interceptedRequest.continue()
Continue == [by |-> "continue", contentType |-> <<>>, body |-> ""]

InitIntercept ==
    \* page.setRequestInterception(true) and page.on('request', ...) are done
    \* and page.goto is under way; pc names the function whose handler runs.
    /\ pc \in {"removeHiddenElements", "optimiseAndOutput"}
    /\ threw = ""
    /\ requests \in SeqsUpTo(RequestUrls, 0, MaxRequests)
    /\ handler = [r \in 1..Len(requests) |-> "request"]
    /\ resolution = [r \in 1..Len(requests) |-> <<>>]
    /\ IdleSrcset /\ IdleCss /\ IdleSize /\ IdleStage /\ IdleRewrite
    /\ IdleHidden

\* The handler runs for request r up to its first await or its return:
\* lines 117-128 in removeHiddenElements, lines 285-313 in optimiseAndOutput.
HandleRequest(r) ==
    /\ handler[r] = "request"
    /\ IF requests[r] = url
       THEN /\ resolution' = [resolution EXCEPT
                                 ![r] = Append(resolution[r], RespondSource)]
            /\ handler' = [handler EXCEPT ![r] = "returned"]
       ELSE IF pc = "optimiseAndOutput" /\ FontType(requests[r]) # <<>>
       THEN /\ handler' = [handler EXCEPT ![r] = "fetch"]
            /\ UNCHANGED resolution
       ELSE /\ resolution' = [resolution EXCEPT
                                 ![r] = Append(resolution[r], Continue)]
            /\ handler' = [handler EXCEPT ![r] = "returned"]
    /\ UNCHANGED <<pc, threw, requests, srcsetVars, cssVars, sizeVars,
                   stageVars, rewriteVars, hiddenVars>>

\* Line 302: await fetch(parsedUrl) settles.  Nothing catches a rejection:
\* it ends the async handler.
FontFetch(r) ==
    /\ handler[r] = "fetch"
    /\ \E ok \in BOOLEAN :
          handler' = [handler EXCEPT ![r] = IF ok THEN "buffer" ELSE "threw"]
    /\ UNCHANGED <<pc, threw, requests, resolution, srcsetVars, cssVars,
                   sizeVars, stageVars, rewriteVars, hiddenVars>>

\* Lines 303-310: await response.buffer() settles; the handler responds
\* with the body fetched and returns.
FontBuffer(r) ==
    /\ handler[r] = "buffer"
    /\ \E ok \in BOOLEAN :
          IF ok
          THEN /\ resolution' = [resolution EXCEPT ![r] =
                      Append(resolution[r], RespondFont(FontType(requests[r])))]
               /\ handler' = [handler EXCEPT ![r] = "returned"]
          ELSE /\ handler' = [handler EXCEPT ![r] = "threw"]
               /\ UNCHANGED resolution
    /\ UNCHANGED <<pc, threw, requests, srcsetVars, cssVars, sizeVars,
                   stageVars, rewriteVars, hiddenVars>>

NextIntercept ==
    \/ \E r \in 1..Len(requests) : HandleRequest(r)
    \/ \E r \in 1..Len(requests) : FontFetch(r)
    \/ \E r \in 1..Len(requests) : FontBuffer(r)

\* Every handler that was started runs on.
SpecIntercept ==
    /\ InitIntercept /\ [][NextIntercept]_vars
    /\ \A r \in 1..MaxRequests :
          WF_vars(r \in 1..Len(requests) /\
                  (HandleRequest(r) \/ FontFetch(r) \/ FontBuffer(r)))

\* The one resolution the claim allows for request r.
Allowed(r) ==
    IF requests[r] = url THEN {RespondSource}
    ELSE IF pc = "optimiseAndOutput" /\ FontType(requests[r]) # <<>>
    THEN {RespondFont(FontType(requests[r]))}
    ELSE {Continue}

\* C11: no intercepted request is resolved twice, and once its handler has
\* ended (nothing else resolves a request) it has been resolved exactly
\* once, in the way its URL calls for, a failed font fetch included.
C11_ResolvedExactlyOnce ==
    \A r \in 1..Len(requests) :
        /\ Len(resolution[r]) <= 1
        /\ handler[r] \in {"returned", "threw"} =>
              /\ Len(resolution[r]) = 1
              /\ resolution[r][1] \in Allowed(r)

\* The same for the handlers that end by returning.
ReturnedResolvedOnce ==
    \A r \in 1..Len(requests) :
        /\ Len(resolution[r]) <= 1
        /\ handler[r] = "returned" =>
              /\ Len(resolution[r]) = 1
              /\ resolution[r][1] \in Allowed(r)

====
